---- MODULE Spec2Model ----
(***************************************************************************)
(* Model of ads/opctl/backend/ads_dataflow.py: the DataFlowBackend adapter *)
(* (init, apply, run, cancel, delete, watch) over a configuration mapping  *)
(* and the Data Flow provider (Job / DataFlowRun).                         *)
(*                                                                         *)
(* Python values: a str is a TLA+ string, except the strings the code      *)
(* takes apart (paths, the command line, JSON text), which are sequences   *)
(* of one-character strings.  A dict is a function whose DOMAIN is its key *)
(* set.  None is the string None.                                          *)
(***************************************************************************)
EXTENDS Integers, Sequences, FiniteSets, TLC

VARIABLES
    op,           \* the operation called last ("none" before the first call)
    config,       \* self.config: the caller's mapping (shared, not copied)
    pc,           \* position of the single caller thread inside an operation
    authDepth,    \* number of AuthContext blocks currently entered
    calls,        \* provider calls made by the operation in progress / last ended
    jobs,         \* provider side: ids of the Data Flow Jobs that exist
    locals,       \* local variables of the operation in progress
    result,       \* how the last operation ended (return value or exception)
    stdout,       \* lines printed by the last operation
    infraRead,    \* the operation has read config["infrastructure"]
    entryConfig   \* value of config when the operation was called

vars == <<op, config, pc, authDepth, calls, jobs, locals, result, stdout,
          infraRead, entryConfig>>

----------------------------------------------------------------------------
(* Bounds *)

MaxJobs == 2      \* the provider holds at most this many Jobs

----------------------------------------------------------------------------
(* Python values and dict helpers *)

None == "<None>"
Unbound == "<unbound>"

Has(m, k) == k \in DOMAIN m

\* dict.get(k, d)
Get(m, k, d) == IF k \in DOMAIN m THEN m[k] ELSE d

\* truth value of a str-or-None
Truthy(v) == v # None /\ v # ""

\* truth value of m.get(k) for a key holding a character sequence
TruthySeq(m, k) == IF k \in DOMAIN m THEN m[k] # <<>> ELSE FALSE

\* dict.pop(k, default): the mapping left behind
Pop(m, k) == [x \in (DOMAIN m) \ {k} |-> m[x]]

\* m[k] = v
Put(m, k, v) == [x \in (DOMAIN m) \cup {k} |-> IF x = k THEN v ELSE m[x]]

EmptyDict == [x \in {} |-> None]

\* mapping built from optional entries: <<>> is "key not given", <<v>> is v
MkMap(opts) ==
    [k \in {x \in DOMAIN opts : opts[x] # <<>>} |-> opts[k][1]]

----------------------------------------------------------------------------
(* Module constant *)

REQUIRED_FIELDS ==
    <<"compartment_id", "driver_shape", "executor_shape",
      "logs_bucket_uri", "script_bucket">>

RequiredSet == {REQUIRED_FIELDS[i] : i \in DOMAIN REQUIRED_FIELDS}

----------------------------------------------------------------------------
(* Library functions the adapter calls on configuration strings *)

\* os.path.join(a, b) (posixpath): an absolute b discards a; otherwise the
\* two are joined by exactly one "/" unless a is empty or already ends in one
PathJoin(a, b) ==
    IF b # <<>> /\ b[1] = "/" THEN b
    ELSE IF a = <<>> \/ a[Len(a)] = "/" THEN a \o b
    ELSE a \o <<"/">> \o b

\* shlex.split(s) in POSIX mode, on the alphabet {letters, " ", "'"}.
\* st is the lexer state: "ws" between tokens, "word" inside a token,
\* "quote" inside '...'.  Returns [ok, toks]; ok = FALSE is
\* ValueError("No closing quotation").
RECURSIVE ShlexScan(_, _, _, _, _)
ShlexScan(s, i, st, cur, toks) ==
    IF i > Len(s)
    THEN CASE st = "ws"    -> [ok |-> TRUE,  toks |-> toks]
           [] st = "word"  -> [ok |-> TRUE,  toks |-> Append(toks, cur)]
           [] st = "quote" -> [ok |-> FALSE, toks |-> <<>>]
    ELSE LET c == s[i] IN
         CASE st = "ws" ->
                IF c = " " THEN ShlexScan(s, i + 1, "ws", <<>>, toks)
                ELSE IF c = "'" THEN ShlexScan(s, i + 1, "quote", <<>>, toks)
                ELSE ShlexScan(s, i + 1, "word", <<c>>, toks)
           [] st = "word" ->
                IF c = " " THEN ShlexScan(s, i + 1, "ws", <<>>, Append(toks, cur))
                ELSE IF c = "'" THEN ShlexScan(s, i + 1, "quote", cur, toks)
                ELSE ShlexScan(s, i + 1, "word", Append(cur, c), toks)
           [] st = "quote" ->
                IF c = "'" THEN ShlexScan(s, i + 1, "word", cur, toks)
                ELSE ShlexScan(s, i + 1, "quote", Append(cur, c), toks)

ShlexSplit(s) == ShlexScan(s, 1, "ws", <<>>, <<>>)

\* A value stored under infrastructure["configuration"]: JSON text as given
\* by the caller, or the dict json.loads made of it
JsonText(t) == [type |-> "str", text |-> t, keys |-> {}]
JsonDict(ks) == [type |-> "dict", text |-> <<>>, keys |-> ks]

\* json.loads on the texts the model feeds it: "{}" parses to the empty
\* dict, "{" raises json.JSONDecodeError (a ValueError)
JsonLoads(v) ==
    IF v.type = "str" /\ v.text = <<"{", "}">>
    THEN [ok |-> TRUE, value |-> JsonDict({})]
    ELSE [ok |-> FALSE, value |-> v]

----------------------------------------------------------------------------
(* The provider (ads.jobs Job / DataFlowRun), as the adapter sees it *)

JobPool == <<"job0", "job1", "job2", "job3">>   \* ids the provider hands out
NewRunIds == {"run1", "run2"}                   \* ids a submitted run may get

FreshJobId(js) ==
    JobPool[CHOOSE i \in DOMAIN JobPool :
                /\ JobPool[i] \notin js
                /\ \A j \in 1..(i - 1) : JobPool[j] \in js]

CanCreate(js) == Cardinality(js) < MaxJobs

\* one entry of the call log
Call(api, id, ok, args) ==
    [api |-> api, id |-> id, ok |-> ok, inCtx |-> authDepth > 0, args |-> args]

----------------------------------------------------------------------------
(* Results and locals *)

\* kind: "none" (nothing has ended yet), "return", or the exception's class;
\* value: what is returned ("dict" {job_id, run_id}, "None", or "text")
NoResult ==
    [kind |-> "none", value |-> "None", msg |-> <<>>,
     job_id |-> Unbound, run_id |-> Unbound]
Raised(kind, msg) ==
    [kind |-> kind, value |-> "None", msg |-> msg,
     job_id |-> Unbound, run_id |-> Unbound]
Returned(job_id, run_id) ==
    [kind |-> "return", value |-> "dict", msg |-> <<>>,
     job_id |-> job_id, run_id |-> run_id]
ReturnedValue(v) ==
    [kind |-> "return", value |-> v, msg |-> <<>>,
     job_id |-> Unbound, run_id |-> Unbound]

NoLocals ==
    [job_id |-> Unbound, run_id |-> Unbound, data_flow_id |-> Unbound,
     rt_spec |-> EmptyDict, infra |-> EmptyDict]

\* `with AuthContext(auth=self.auth_type, profile=self.profile):`
EnterContext(d) == d + 1

\* leaving the with block at its end
ExitContext(d) == IF d > 0 THEN d - 1 ELSE 0

\* the context stays entered when an exception passes
UnwindContextLeak(d) == d

\* leaving the with block because an exception propagates through it
UnwindContext(d) == IF d > 0 THEN d - 1 ELSE 0

\* an operation is called: the previous operation's outcome is forgotten
Begin(name, readsInfra) ==
    /\ pc = "idle"
    /\ op' = name
    /\ calls' = <<>>
    /\ stdout' = <<>>
    /\ infraRead' = readsInfra
    /\ entryConfig' = config

\* an exception leaves the operation
Raise(kind, msg) ==
    /\ result' = Raised(kind, msg)
    /\ authDepth' = UnwindContext(authDepth)
    /\ pc' = "idle"

----------------------------------------------------------------------------
(* run() *)

\* tests the key delete() tests
UseExistingJobById(execution) == Truthy(Get(execution, "id", None))

\* line 129: the truth value of execution.get("ocid", None)
UseExistingJob(execution) == Truthy(Get(execution, "ocid", None))

\* reports the first absent field only
MissingFirstOnly(infra) ==
    LET all == SelectSeq(REQUIRED_FIELDS, LAMBDA k : k \notin DOMAIN infra)
    IN IF all = <<>> THEN <<>> ELSE <<all[1]>>

\* line 135: [k for k in REQUIRED_FIELDS if k not in infra]
Missing(infra) == SelectSeq(REQUIRED_FIELDS, LAMBDA k : k \notin DOMAIN infra)

\* joins the two paths by plain concatenation
RtSpecConcat(execution, infra) ==
    MkMap([scriptPathURI |->
               <<execution["source_folder"] \o execution["entrypoint"]>>,
           scriptBucket |->
               IF Has(infra, "script_bucket") THEN <<infra["script_bucket"]>> ELSE <<>>,
           args |->
               IF TruthySeq(execution, "command")
               THEN <<ShlexSplit(execution["command"]).toks>> ELSE <<>>,
           archiveUri |->
               IF Truthy(Get(execution, "archive", None))
               THEN <<execution["archive"]>> ELSE <<>>,
           archiveBucket |->
               IF Truthy(Get(execution, "archive", None))
               THEN <<Get(infra, "archive_bucket", None)>> ELSE <<>>])

\* lines 139-150: the dict given to DataFlowRuntime
RtSpec(execution, infra) ==
    MkMap([scriptPathURI |->
               <<PathJoin(execution["source_folder"], execution["entrypoint"])>>,
           scriptBucket |->
               IF Has(infra, "script_bucket") THEN <<infra["script_bucket"]>> ELSE <<>>,
           args |->
               IF TruthySeq(execution, "command")
               THEN <<ShlexSplit(execution["command"]).toks>> ELSE <<>>,
           archiveUri |->
               IF Truthy(Get(execution, "archive", None))
               THEN <<execution["archive"]>> ELSE <<>>,
           archiveBucket |->
               IF Truthy(Get(execution, "archive", None))
               THEN <<Get(infra, "archive_bucket", None)>> ELSE <<>>])

\* line 145: infra after infra.pop("script_bucket")
InfraAfterScriptPop(infra) == Pop(infra, "script_bucket")

\* line 150: infra after infra.pop("archive_bucket", None), when archive is set
InfraAfterPops(execution, infra) ==
    IF Truthy(Get(execution, "archive", None))
    THEN Pop(InfraAfterScriptPop(infra), "archive_bucket")
    ELSE InfraAfterScriptPop(infra)

\* lines 152-153: infra after the configuration text is replaced by its parse
InfraSpec(execution, infra) ==
    LET i2 == InfraAfterPops(execution, infra) IN
    IF Has(i2, "configuration")
    THEN Put(i2, "configuration", JsonLoads(i2["configuration"]).value)
    ELSE i2

\* submits before creating
AfterBuildSubmitFirst == "run_submit_new"

\* the step after the descriptors are built (line 154 on)
AfterBuild == "run_create"

\* lines 128-129
RunBegin ==
    /\ Begin("run", FALSE)
    /\ locals' = NoLocals
    /\ authDepth' = EnterContext(authDepth)
    /\ result' = NoResult
    /\ pc' = IF UseExistingJob(config.execution) THEN "run_lookup" ELSE "run_validate"
    /\ UNCHANGED <<config, jobs>>

\* lines 130-131: Job.from_dataflow_job(data_flow_id)
RunLookup ==
    /\ pc = "run_lookup"
    /\ LET id == config.execution["ocid"] IN
       \E ok \in BOOLEAN :
         /\ ok => id \in jobs
         /\ calls' = Append(calls, Call("Job.from_dataflow_job", id, ok, <<>>))
         /\ IF ok
            THEN /\ locals' = [locals EXCEPT !.data_flow_id = id]
                 /\ pc' = "run_submit_existing"
                 /\ UNCHANGED <<result, authDepth>>
            ELSE /\ Raise("ProviderError", <<>>)
                 /\ UNCHANGED locals
    /\ UNCHANGED <<op, config, jobs, stdout, infraRead, entryConfig>>

\* line 131: .run().id, then the with block ends
RunSubmitExisting ==
    /\ pc = "run_submit_existing"
    /\ \E ok \in BOOLEAN, r \in NewRunIds :
         /\ ~ok => r = "run1"
         /\ calls' = Append(calls, Call("Job.run", locals.data_flow_id, ok, <<r>>))
         /\ IF ok
            THEN /\ locals' = [locals EXCEPT !.run_id = r]
                 /\ authDepth' = ExitContext(authDepth)
                 /\ pc' = "run_report"
                 /\ UNCHANGED result
            ELSE /\ Raise("ProviderError", <<>>)
                 /\ UNCHANGED locals
    /\ UNCHANGED <<op, config, jobs, stdout, infraRead, entryConfig>>

\* lines 133-138
RunValidate ==
    /\ pc = "run_validate"
    /\ infraRead' = TRUE
    /\ LET infra == Get(config, "infrastructure", EmptyDict) IN
       IF Missing(infra) # <<>>
       THEN Raise("ValueError", Missing(infra))
       ELSE /\ pc' = "run_build"
            /\ UNCHANGED <<result, authDepth>>
    /\ UNCHANGED <<op, config, calls, jobs, locals, stdout, entryConfig>>

\* lines 139-153: infra is config["infrastructure"] itself, so the pops and
\* the parsed configuration land in the caller's mapping
RunBuild ==
    /\ pc = "run_build"
    /\ LET e == config.execution
           infra == config.infrastructure
       IN
       IF ~Has(e, "source_folder") \/ ~Has(e, "entrypoint")
       THEN /\ Raise("KeyError", <<>>)
            /\ UNCHANGED <<config, locals>>
       ELSE IF TruthySeq(e, "command") /\ ~ShlexSplit(e["command"]).ok
       THEN /\ Raise("ValueError", <<"No closing quotation">>)
            /\ config' = [config EXCEPT !.infrastructure = InfraAfterScriptPop(infra)]
            /\ UNCHANGED locals
       ELSE IF /\ Has(InfraAfterPops(e, infra), "configuration")
               /\ ~JsonLoads(infra["configuration"]).ok
       THEN /\ Raise("ValueError", <<"JSONDecodeError">>)
            /\ config' = [config EXCEPT !.infrastructure = InfraAfterPops(e, infra)]
            /\ UNCHANGED locals
       ELSE /\ config' = [config EXCEPT !.infrastructure = InfraSpec(e, infra)]
            /\ locals' = [locals EXCEPT !.rt_spec = RtSpec(e, infra),
                                        !.infra = InfraSpec(e, infra)]
            /\ pc' = AfterBuild
            /\ UNCHANGED <<result, authDepth>>
    /\ UNCHANGED <<op, calls, jobs, stdout, infraRead, entryConfig>>

\* lines 154-156: Job(infrastructure=DataFlow(spec=infra), runtime=rt).create(...)
RunCreate ==
    /\ pc = "run_create"
    /\ \E ok \in BOOLEAN :
         /\ ok => CanCreate(jobs)
         /\ LET id == IF ok THEN FreshJobId(jobs) ELSE Unbound
                args == [runtime |-> locals.rt_spec,
                         infrastructure |-> locals.infra,
                         overwrite |-> Get(config.execution, "overwrite", FALSE)]
            IN
            /\ calls' = Append(calls, Call("Job.create", id, ok, args))
            /\ IF ok
               THEN /\ jobs' = jobs \cup {id}
                    /\ locals' = [locals EXCEPT !.job_id = id]
                    /\ pc' = "run_submit_new"
                    /\ UNCHANGED <<result, authDepth>>
               ELSE /\ Raise("ProviderError", <<>>)
                    /\ UNCHANGED <<jobs, locals>>
    /\ UNCHANGED <<op, config, stdout, infraRead, entryConfig>>

\* line 157: df.run().id, then the with block ends
RunSubmitNew ==
    /\ pc = "run_submit_new"
    /\ \E ok \in BOOLEAN, r \in NewRunIds :
         /\ ~ok => r = "run1"
         /\ calls' = Append(calls, Call("Job.run", locals.job_id, ok, <<r>>))
         /\ IF ok
            THEN /\ locals' = [locals EXCEPT !.run_id = r]
                 /\ authDepth' = ExitContext(authDepth)
                 /\ pc' = "run_report"
                 /\ UNCHANGED result
            ELSE /\ Raise("ProviderError", <<>>)
                 /\ UNCHANGED locals
    /\ UNCHANGED <<op, config, jobs, stdout, infraRead, entryConfig>>

\* lines 158-160: job_id is assigned on the create path only
RunReport ==
    /\ pc = "run_report"
    /\ IF locals.job_id = Unbound
       THEN /\ Raise("UnboundLocalError", <<"job_id">>)
            /\ UNCHANGED stdout
       ELSE /\ stdout' = << <<"DataFlow App ID:", locals.job_id>>,
                            <<"DataFlow Run ID:", locals.run_id>> >>
            /\ result' = Returned(locals.job_id, locals.run_id)
            /\ pc' = "idle"
            /\ UNCHANGED authDepth
    /\ UNCHANGED <<op, config, calls, jobs, locals, infraRead, entryConfig>>

----------------------------------------------------------------------------
(* cancel() *)

\* tests that the key is there, not that it holds an id
CancelValidKeyOnly(execution) == Has(execution, "run_id")

\* line 166: the truth value of execution.get("run_id")
CancelValid(execution) == Truthy(Get(execution, "run_id", None))

\* lines 166-169
CancelBegin ==
    /\ Begin("cancel", FALSE)
    /\ IF CancelValid(config.execution)
       THEN /\ locals' = [NoLocals EXCEPT !.run_id = config.execution["run_id"]]
            /\ authDepth' = EnterContext(authDepth)
            /\ result' = NoResult
            /\ pc' = "cancel_lookup"
       ELSE /\ Raise("ValueError", <<"Can only cancel a DataFlow run.">>)
            /\ locals' = NoLocals
    /\ UNCHANGED <<config, jobs>>

\* line 170: DataFlowRun.from_ocid(run_id)
CancelLookup ==
    /\ pc = "cancel_lookup"
    /\ \E ok \in BOOLEAN :
         /\ calls' = Append(calls, Call("DataFlowRun.from_ocid", locals.run_id, ok, <<>>))
         /\ IF ok
            THEN /\ pc' = "cancel_delete"
                 /\ UNCHANGED <<result, authDepth>>
            ELSE Raise("ProviderError", <<>>)
    /\ UNCHANGED <<op, config, jobs, locals, stdout, infraRead, entryConfig>>

\* line 170: .delete(), then the with block ends and cancel returns None
CancelDelete ==
    /\ pc = "cancel_delete"
    /\ \E ok \in BOOLEAN :
         /\ calls' = Append(calls, Call("DataFlowRun.delete", locals.run_id, ok, <<>>))
         /\ IF ok
            THEN /\ authDepth' = ExitContext(authDepth)
                 /\ result' = ReturnedValue("None")
                 /\ pc' = "idle"
            ELSE Raise("ProviderError", <<>>)
    /\ UNCHANGED <<op, config, jobs, locals, stdout, infraRead, entryConfig>>

----------------------------------------------------------------------------
(* delete() *)

\* the two tests in the other order
DeleteTargetRunFirst(execution) ==
    IF Truthy(Get(execution, "run_id", None)) THEN "run"
    ELSE IF Truthy(Get(execution, "id", None)) THEN "job"
    ELSE "none"

\* lines 176 and 180: which resource delete() goes for
DeleteTarget(execution) ==
    IF Truthy(Get(execution, "id", None)) THEN "job"
    ELSE IF Truthy(Get(execution, "run_id", None)) THEN "run"
    ELSE "none"

\* lines 176-178, 180-182
DeleteBegin ==
    /\ Begin("delete", FALSE)
    /\ LET e == config.execution IN
       CASE DeleteTarget(e) = "job" ->
              /\ locals' = [NoLocals EXCEPT !.data_flow_id = e["id"]]
              /\ authDepth' = EnterContext(authDepth)
              /\ result' = NoResult
              /\ pc' = "delete_job_lookup"
         [] DeleteTarget(e) = "run" ->
              /\ locals' = [NoLocals EXCEPT !.run_id = e["run_id"]]
              /\ authDepth' = EnterContext(authDepth)
              /\ result' = NoResult
              /\ pc' = "delete_run_lookup"
         [] OTHER ->
              /\ locals' = NoLocals
              /\ result' = ReturnedValue("None")
              /\ pc' = "idle"
              /\ UNCHANGED authDepth
    /\ UNCHANGED <<config, jobs>>

\* line 179: Job.from_dataflow_job(data_flow_id)
DeleteJobLookup ==
    /\ pc = "delete_job_lookup"
    /\ \E ok \in BOOLEAN :
         /\ ok => locals.data_flow_id \in jobs
         /\ calls' = Append(calls,
                Call("Job.from_dataflow_job", locals.data_flow_id, ok, <<>>))
         /\ IF ok
            THEN /\ pc' = "delete_job_delete"
                 /\ UNCHANGED <<result, authDepth>>
            ELSE Raise("ProviderError", <<>>)
    /\ UNCHANGED <<op, config, jobs, locals, stdout, infraRead, entryConfig>>

\* line 179: .delete(), then the with block ends and delete returns None
DeleteJobDelete ==
    /\ pc = "delete_job_delete"
    /\ \E ok \in BOOLEAN :
         /\ calls' = Append(calls, Call("Job.delete", locals.data_flow_id, ok, <<>>))
         /\ IF ok
            THEN /\ jobs' = jobs \ {locals.data_flow_id}
                 /\ authDepth' = ExitContext(authDepth)
                 /\ result' = ReturnedValue("None")
                 /\ pc' = "idle"
            ELSE /\ Raise("ProviderError", <<>>)
                 /\ UNCHANGED jobs
    /\ UNCHANGED <<op, config, locals, stdout, infraRead, entryConfig>>

\* line 183: DataFlowRun.from_ocid(run_id)
DeleteRunLookup ==
    /\ pc = "delete_run_lookup"
    /\ \E ok \in BOOLEAN :
         /\ calls' = Append(calls, Call("DataFlowRun.from_ocid", locals.run_id, ok, <<>>))
         /\ IF ok
            THEN /\ pc' = "delete_run_delete"
                 /\ UNCHANGED <<result, authDepth>>
            ELSE Raise("ProviderError", <<>>)
    /\ UNCHANGED <<op, config, jobs, locals, stdout, infraRead, entryConfig>>

\* line 183: .delete(), then the with block ends and delete returns None
DeleteRunDelete ==
    /\ pc = "delete_run_delete"
    /\ \E ok \in BOOLEAN :
         /\ calls' = Append(calls, Call("DataFlowRun.delete", locals.run_id, ok, <<>>))
         /\ IF ok
            THEN /\ authDepth' = ExitContext(authDepth)
                 /\ result' = ReturnedValue("None")
                 /\ pc' = "idle"
            ELSE Raise("ProviderError", <<>>)
    /\ UNCHANGED <<op, config, jobs, locals, stdout, infraRead, entryConfig>>

----------------------------------------------------------------------------
(* watch() *)

\* lines 189-190: execution["run_id"] is subscripted, not validated
WatchBegin ==
    /\ Begin("watch", FALSE)
    /\ IF Has(config.execution, "run_id")
       THEN /\ locals' = [NoLocals EXCEPT !.run_id = config.execution["run_id"]]
            /\ authDepth' = EnterContext(authDepth)
            /\ result' = NoResult
            /\ pc' = "watch_lookup"
       ELSE /\ Raise("KeyError", <<"run_id">>)
            /\ locals' = NoLocals
    /\ UNCHANGED <<config, jobs>>

\* line 191: DataFlowRun.from_ocid(run_id); None names no Run
WatchLookup ==
    /\ pc = "watch_lookup"
    /\ \E ok \in BOOLEAN :
         /\ ok => Truthy(locals.run_id)
         /\ calls' = Append(calls, Call("DataFlowRun.from_ocid", locals.run_id, ok, <<>>))
         /\ IF ok
            THEN /\ pc' = "watch_watch"
                 /\ UNCHANGED <<result, authDepth>>
            ELSE Raise("ProviderError", <<>>)
    /\ UNCHANGED <<op, config, jobs, locals, stdout, infraRead, entryConfig>>

\* line 192: run.watch(), then the with block ends and watch returns None
WatchWatch ==
    /\ pc = "watch_watch"
    /\ \E ok \in BOOLEAN :
         /\ calls' = Append(calls, Call("DataFlowRun.watch", locals.run_id, ok, <<>>))
         /\ IF ok
            THEN /\ authDepth' = ExitContext(authDepth)
                 /\ result' = ReturnedValue("None")
                 /\ pc' = "idle"
            ELSE Raise("ProviderError", <<>>)
    /\ UNCHANGED <<op, config, jobs, locals, stdout, infraRead, entryConfig>>

----------------------------------------------------------------------------
(* init() and apply() *)

RuntimeKeys == {"DataFlowRuntime.type", "DataFlowNotebookRuntime.type"}

\* how init() ends: the factory rejects an unregistered key, to_yaml refuses
\* to overwrite an existing destination, otherwise the text (no uri) or None
InitOutcome(runtime_type, uri, overwrite, exists) ==
    IF runtime_type # None /\ runtime_type \notin RuntimeKeys
    THEN Raised("ValueError", <<"unsupported runtime type">>)
    ELSE IF uri # None /\ exists /\ ~overwrite
    THEN Raised("FileExistsError", <<>>)
    ELSE IF uri = None THEN ReturnedValue("text")
    ELSE ReturnedValue("None")

\* lines 86-115: the template Job is built from a copy of the infrastructure
\* section (DataFlow(**(... or {}))) inside one with block
InitTemplate ==
    /\ Begin("init", TRUE)
    /\ result' \in {InitOutcome(runtime_type, uri, overwrite, exists) :
                        runtime_type \in RuntimeKeys \cup {None, "other"},
                        uri \in {None, "job.yaml"},
                        overwrite \in BOOLEAN, exists \in BOOLEAN}
    /\ authDepth' = ExitContext(EnterContext(authDepth))
    /\ locals' = NoLocals
    /\ pc' = "idle"
    /\ UNCHANGED <<config, jobs>>

\* lines 117-122
Apply ==
    /\ Begin("apply", FALSE)
    /\ Raise("NotImplementedError", <<>>)
    /\ locals' = NoLocals
    /\ UNCHANGED <<config, jobs>>

----------------------------------------------------------------------------
(* Configurations handed to the constructor *)

\* optional entries of the execution section
OcidChoices == {<<>>, <<None>>, <<"job0">>}
RunIdChoices == {<<>>, <<None>>, <<"run0">>}
IdChoices == {<<>>, <<"job0">>}
CommandChoices ==
    {<<>>, << <<>> >>, << <<"a", " ", "b">> >>, << <<"'", "a", " ", "b", "'">> >>,
     << <<"a", "'">> >>}
ArchiveChoices == {<<>>, <<"archive.zip">>}
SourceFolderChoices == {<< <<"/", "s">> >>, << <<"/", "s", "/">> >>}
EntrypointChoices == {<<>>, << <<"j">> >>, << <<"/", "j">> >>}

Executions ==
    {MkMap([ocid |-> o, run_id |-> r, id |-> i, command |-> c, archive |-> a,
            source_folder |-> s, entrypoint |-> e]) :
        o \in OcidChoices, r \in RunIdChoices, i \in IdChoices,
        c \in CommandChoices, a \in ArchiveChoices,
        s \in SourceFolderChoices, e \in EntrypointChoices}

\* the executions that differ in the ids only
PlainExecutions ==
    {MkMap([ocid |-> o, run_id |-> r, id |-> i,
            source_folder |-> << <<"/", "s">> >>, entrypoint |-> << <<"j">> >>]) :
        o \in OcidChoices, r \in RunIdChoices, i \in IdChoices}

\* values of the infrastructure section
InfraValue(k) ==
    CASE k = "compartment_id" -> "c1"
      [] k = "driver_shape" -> "d"
      [] k = "executor_shape" -> "e"
      [] k = "logs_bucket_uri" -> "b"
      [] k = "script_bucket" -> "sb"
      [] k = "archive_bucket" -> "ab"

ConfigurationChoices == {<<>>, <<JsonText(<<"{", "}">>)>>, <<JsonText(<<"{">>)>>}

\* all required fields, with or without the optional ones
CompleteInfrastructures ==
    {MkMap([k \in RequiredSet \cup {"archive_bucket", "configuration"} |->
              IF k = "configuration" THEN c
              ELSE IF k = "archive_bucket" THEN ab
              ELSE <<InfraValue(k)>>]) :
        c \in ConfigurationChoices, ab \in {<<>>, <<"ab">>}}

\* some required field absent
IncompleteInfrastructures ==
    {[k \in ks |-> InfraValue(k)] : ks \in (SUBSET RequiredSet) \ {RequiredSet}}

\* The command, the archive and the paths are read by run() after the
\* required fields are found present (line 139 on) and by nothing else, so
\* they vary with the complete infrastructures only.
Configs ==
    {[execution |-> e, infrastructure |-> i] :
        e \in Executions, i \in CompleteInfrastructures}
    \cup
    {[execution |-> e, infrastructure |-> i] :
        e \in PlainExecutions, i \in IncompleteInfrastructures}
    \cup
    {[execution |-> e] : e \in PlainExecutions}

----------------------------------------------------------------------------
(* The adapter after DataFlowBackend(config): lines 40-57 *)

Init ==
    /\ op = "none"
    /\ config \in Configs
    /\ pc = "idle"
    /\ authDepth = 0
    /\ calls = <<>>
    /\ jobs = {"job0"}
    /\ locals = NoLocals
    /\ result = NoResult
    /\ stdout = <<>>
    /\ infraRead = FALSE
    /\ entryConfig = config

Next ==
    \/ InitTemplate
    \/ Apply
    \/ RunBegin
    \/ RunLookup
    \/ RunSubmitExisting
    \/ RunValidate
    \/ RunBuild
    \/ RunCreate
    \/ RunSubmitNew
    \/ RunReport
    \/ CancelBegin
    \/ CancelLookup
    \/ CancelDelete
    \/ DeleteBegin
    \/ DeleteJobLookup
    \/ DeleteJobDelete
    \/ DeleteRunLookup
    \/ DeleteRunDelete
    \/ WatchBegin
    \/ WatchLookup
    \/ WatchWatch

Spec == Init /\ [][Next]_vars

----------------------------------------------------------------------------
(* Vocabulary of the properties *)

\* the sections as they were when the operation was called
EntryExecution == entryConfig.execution
EntryInfra == IF "infrastructure" \in DOMAIN entryConfig
              THEN entryConfig.infrastructure ELSE EmptyDict

\* "key is set": present with a value that is neither None nor empty
IsSet(m, k) == k \in DOMAIN m /\ m[k] # None /\ m[k] # ""

Ended == pc = "idle" /\ op # "none"

AbsentRequired == RequiredSet \ DOMAIN EntryInfra

Apis(a) == {i \in DOMAIN calls : calls[i].api = a}

DeleteApis == {"Job.delete", "DataFlowRun.delete"}

----------------------------------------------------------------------------
(* C1 *)

\* C1: when run() is called with execution.ocid not set and some required
\* field absent from infrastructure, it makes no provider call at any point
\* and ends with a ValueError whose message lists each absent required field
\* once and nothing else.
C1_MissingFieldsRejected ==
    (op = "run" /\ ~IsSet(EntryExecution, "ocid") /\ AbsentRequired # {})
    => /\ calls = <<>>
       /\ Ended => /\ result.kind = "ValueError"
                   /\ {result.msg[i] : i \in DOMAIN result.msg} = AbsentRequired
                   /\ Len(result.msg) = Cardinality(AbsentRequired)

\* run() has ended on a configuration that lacks two of the five fields
C1_Witness ==
    /\ op = "run" /\ Ended
    /\ ~IsSet(EntryExecution, "ocid")
    /\ AbsentRequired = {"driver_shape", "script_bucket"}
    /\ result.kind = "ValueError"

----------------------------------------------------------------------------
(* C2 *)

\* the provider calls of run() are over and each succeeded
RunCallsSucceeded ==
    /\ op = "run" /\ Ended
    /\ Apis("Job.run") # {}
    /\ \A i \in DOMAIN calls : calls[i].ok

\* C2: on either path of run(), when every provider call succeeded, run()
\* prints the Job id and the Run id and returns {job_id, run_id}, where
\* run_id is the id of the run just submitted and job_id is the Job it was
\* submitted on (with execution.ocid set: that existing Job).
C2_RunReturnsIds ==
    RunCallsSucceeded =>
        LET sub == calls[Len(calls)] IN
        /\ result.kind = "return" /\ result.value = "dict"
        /\ result.run_id = sub.args[1]
        /\ result.job_id = sub.id
        /\ IsSet(EntryExecution, "ocid") => result.job_id = EntryExecution["ocid"]
        /\ stdout = << <<"DataFlow App ID:", result.job_id>>,
                       <<"DataFlow Run ID:", result.run_id>> >>

----------------------------------------------------------------------------
(* C3 *)

\* C3: when run() is called with execution.ocid set, it never reads the
\* infrastructure section and leaves it as it was, never enters the
\* validate/build/create steps and never calls Job.create; its first provider
\* call looks up the Job named by execution.ocid, its second (made when the
\* lookup succeeded) submits a run on that Job, and it makes no other call.
C3_OcidPathIgnoresInfra ==
    (op = "run" /\ IsSet(EntryExecution, "ocid"))
    => /\ ~infraRead
       /\ config = entryConfig
       /\ pc \in {"run_lookup", "run_submit_existing", "run_report", "idle"}
       /\ Apis("Job.create") = {}
       /\ Len(calls) <= 2
       /\ Len(calls) >= 1 =>
            /\ calls[1].api = "Job.from_dataflow_job"
            /\ calls[1].id = EntryExecution["ocid"]
       /\ Len(calls) = 2 =>
            /\ calls[1].ok
            /\ calls[2].api = "Job.run"
            /\ calls[2].id = EntryExecution["ocid"]
       /\ Ended => /\ calls # <<>>
                   /\ calls[1].ok => Len(calls) = 2

\* run() with ocid set has submitted a run although infrastructure lacks
\* required fields
C3_Witness ==
    /\ op = "run" /\ Ended
    /\ IsSet(EntryExecution, "ocid")
    /\ AbsentRequired # {}
    /\ Len(calls) = 2 /\ calls[2].api = "Job.run" /\ calls[2].ok

----------------------------------------------------------------------------
(* C4 *)

\* C4: when watch() is called with execution.run_id absent (key missing, or
\* None/empty), it makes no provider call and ends with a ValueError.
C4_WatchRequiresRunId ==
    (op = "watch" /\ ~IsSet(EntryExecution, "run_id"))
    => /\ calls = <<>>
       /\ Ended => result.kind = "ValueError"

----------------------------------------------------------------------------
(* C5 *)

\* C5: when cancel() is called with execution.run_id absent (key missing, or
\* None/empty), it makes no provider call and ends with a ValueError; when
\* run_id is set, its calls are a lookup of that Run followed (if the lookup
\* succeeded) by a delete of that Run, and a normal return means both were
\* made and succeeded.
C5_CancelRequiresRunId ==
    op = "cancel" =>
        IF ~IsSet(EntryExecution, "run_id")
        THEN /\ calls = <<>>
             /\ Ended => result.kind = "ValueError"
        ELSE /\ Len(calls) <= 2
             /\ \A i \in DOMAIN calls : calls[i].id = EntryExecution["run_id"]
             /\ Len(calls) >= 1 => calls[1].api = "DataFlowRun.from_ocid"
             /\ Len(calls) = 2 => calls[1].ok /\ calls[2].api = "DataFlowRun.delete"
             /\ Ended => /\ calls # <<>>
                         /\ result.kind \in {"return", "ProviderError"}
                         /\ result.kind = "return"
                              <=> (Len(calls) = 2 /\ calls[2].ok)

\* cancel() has been refused on a configuration whose run_id key holds None
C5_Witness ==
    /\ op = "cancel" /\ Ended
    /\ "run_id" \in DOMAIN EntryExecution
    /\ EntryExecution["run_id"] = None
    /\ result.kind = "ValueError"
    /\ calls = <<>>

----------------------------------------------------------------------------
(* C6 *)

\* C6: delete() makes at most one delete call.  With execution.id set, its
\* calls are a lookup of that Job and (if found) a delete of that Job, and
\* no Run call even when run_id is set too; otherwise with run_id set, a
\* lookup of that Run and (if found) a delete of it; with neither set, no
\* provider call and a normal return.
C6_DeletePrecedence ==
    op = "delete" =>
        /\ Cardinality({i \in DOMAIN calls : calls[i].api \in DeleteApis}) <= 1
        /\ Len(calls) <= 2
        /\ IsSet(EntryExecution, "id") =>
             /\ \A i \in DOMAIN calls :
                  /\ calls[i].api \in {"Job.from_dataflow_job", "Job.delete"}
                  /\ calls[i].id = EntryExecution["id"]
             /\ Len(calls) >= 1 => calls[1].api = "Job.from_dataflow_job"
             /\ Len(calls) = 2 => calls[1].ok /\ calls[2].api = "Job.delete"
             /\ Ended => calls # <<>> /\ (calls[1].ok => Len(calls) = 2)
        /\ (~IsSet(EntryExecution, "id") /\ IsSet(EntryExecution, "run_id")) =>
             /\ \A i \in DOMAIN calls :
                  /\ calls[i].api \in {"DataFlowRun.from_ocid", "DataFlowRun.delete"}
                  /\ calls[i].id = EntryExecution["run_id"]
             /\ Len(calls) >= 1 => calls[1].api = "DataFlowRun.from_ocid"
             /\ Len(calls) = 2 => calls[1].ok /\ calls[2].api = "DataFlowRun.delete"
             /\ Ended => calls # <<>> /\ (calls[1].ok => Len(calls) = 2)
        /\ (~IsSet(EntryExecution, "id") /\ ~IsSet(EntryExecution, "run_id")) =>
             /\ calls = <<>>
             /\ Ended => result.kind = "return"

\* delete() has deleted the Job on a configuration that names a Run as well
C6_Witness ==
    /\ op = "delete" /\ Ended
    /\ IsSet(EntryExecution, "id") /\ IsSet(EntryExecution, "run_id")
    /\ Len(calls) = 2 /\ calls[2].api = "Job.delete" /\ calls[2].ok
    /\ result.kind = "return"

----------------------------------------------------------------------------
(* C7 *)

\* C7: no step of any operation changes the configuration mapping.
C7_ConfigImmutable == [][config' = config]_vars

----------------------------------------------------------------------------
(* C8 *)

\* C8: every provider call is made with the AuthContext entered, at most
\* one context is entered at a time, and whenever an operation has ended
\* (return, validation failure or provider error) no context is left entered.
C8_CallsInsideAuthContext ==
    /\ \A i \in DOMAIN calls : calls[i].inCtx
    /\ authDepth \in {0, 1}
    /\ pc = "idle" => authDepth = 0
    /\ pc # "idle" => (authDepth = 1 <=> pc # "run_report")

\* an operation has ended on a provider error after a successful call
C8_Witness ==
    /\ Ended
    /\ result.kind = "ProviderError"
    /\ Len(calls) = 2 /\ calls[1].ok /\ ~calls[2].ok
    /\ authDepth = 0

----------------------------------------------------------------------------
(* C9 *)

CreateCalls == Apis("Job.create")

\* C9: whenever run() calls Job.create, the runtime descriptor it passes has
\* scriptPathURI = os.path.join(source_folder, entrypoint) (one "/" between
\* them, none added after a trailing "/", source_folder dropped for an
\* absolute entrypoint), scriptBucket = infrastructure.script_bucket as it
\* was at the call of run(), args exactly when command is non-empty and then
\* its shell tokens in order, archiveUri and archiveBucket exactly when
\* archive is set (archiveUri being it); and the infrastructure descriptor
\* passed has no script_bucket.
C9_RuntimeDescriptor ==
    \A i \in CreateCalls :
        LET rt == calls[i].args.runtime
            e == EntryExecution
            src == e["source_folder"]
            ent == e["entrypoint"]
            cmd == IF "command" \in DOMAIN e THEN e["command"] ELSE <<>>
        IN
        /\ op = "run" /\ ~IsSet(e, "ocid") /\ AbsentRequired = {}
        /\ "scriptPathURI" \in DOMAIN rt
        /\ rt["scriptPathURI"] = PathJoin(src, ent)
        /\ (src = <<"/", "s">> /\ ent = <<"j">>) => rt["scriptPathURI"] = <<"/", "s", "/", "j">>
        /\ (src = <<"/", "s", "/">> /\ ent = <<"j">>) => rt["scriptPathURI"] = <<"/", "s", "/", "j">>
        /\ ent = <<"/", "j">> => rt["scriptPathURI"] = <<"/", "j">>
        /\ "scriptBucket" \in DOMAIN rt
        /\ rt["scriptBucket"] = EntryInfra["script_bucket"]
        /\ "args" \in DOMAIN rt <=> cmd # <<>>
        /\ cmd = <<"a", " ", "b">> => rt["args"] = << <<"a">>, <<"b">> >>
        /\ cmd = <<"'", "a", " ", "b", "'">> => rt["args"] = << <<"a", " ", "b">> >>
        /\ cmd # <<>> => /\ ShlexSplit(cmd).ok
                         /\ rt["args"] = ShlexSplit(cmd).toks
        /\ "archiveUri" \in DOMAIN rt <=> IsSet(e, "archive")
        /\ "archiveBucket" \in DOMAIN rt <=> IsSet(e, "archive")
        /\ IsSet(e, "archive") => rt["archiveUri"] = e["archive"]
        /\ "script_bucket" \notin DOMAIN calls[i].args.infrastructure

\* run() has created a Job from a configuration with a quoted command, an
\* archive and a source folder ending in "/"
C9_Witness ==
    /\ op = "run"
    /\ \E i \in CreateCalls : calls[i].ok
    /\ IsSet(EntryExecution, "archive")
    /\ "command" \in DOMAIN EntryExecution
    /\ EntryExecution["command"] = <<"'", "a", " ", "b", "'">>
    /\ EntryExecution["source_folder"] = <<"/", "s", "/">>

----------------------------------------------------------------------------
(* C10 *)

\* C10: on the create path of run(), a run is submitted only as the call
\* right after a successful Job.create and on the Job it created; and when
\* that submission fails, run() ends with the provider's error, has made no
\* delete call, and the created Job is still on the provider.
C10_NoRollback ==
    (op = "run" /\ ~IsSet(EntryExecution, "ocid")) =>
        /\ \A i \in Apis("Job.run") :
             /\ i = 2
             /\ calls[1].api = "Job.create" /\ calls[1].ok
             /\ calls[2].id = calls[1].id
        /\ (Len(calls) = 2 /\ ~calls[2].ok) =>
             /\ Ended
             /\ result.kind = "ProviderError"
             /\ \A i \in DOMAIN calls : calls[i].api \notin DeleteApis
             /\ calls[1].id \in jobs

\* Job creation succeeded and the run submission failed
C10_Witness ==
    /\ op = "run" /\ Ended
    /\ ~IsSet(EntryExecution, "ocid")
    /\ Len(calls) = 2
    /\ calls[1].api = "Job.create" /\ calls[1].ok
    /\ calls[2].api = "Job.run" /\ ~calls[2].ok
    /\ calls[1].id \in jobs

====
